---- MODULE Spec2Model ----
(***************************************************************************)
(* Model of the external-agent execution core of obsidian-claude-code:     *)
(* ClaudeCliService (process supervisor, line buffering, input queue),     *)
(* MessageParser (stream parser and tool-call correlator) and the parts of  *)
(* ChatPanelView / InlineBlockProcessor that call into them.               *)
(*                                                                         *)
(* Text is modelled as a sequence of characters, a stdout chunk as a       *)
(* sequence of bytes.  Characters and bytes are short strings: "LF" is the *)
(* newline, "sp" a blank, "c3" "a9" the two UTF-8 bytes of the character   *)
(* "E9" (U+00E9) and "FFFD" the replacement character a decoder produces   *)
(* for an incomplete byte sequence.  An empty sequence stands for both the *)
(* empty string and an absent text (the code only tests truthiness).       *)
(***************************************************************************)
EXTENDS Integers, Sequences, FiniteSets, TLC

\* ------------------------------------------------------------------ bounds
MaxRuns == 2     \* processes spawned in one behaviour of Spec
MaxLines == 2    \* complete lines a process writes in StreamSpec
MaxChunk == 3    \* bytes delivered by one stdout 'data' event
MaxFiles == 2    \* files in the storage folder
MaxSessions == 2 \* sessions created in one behaviour
MaxMessages == 2 \* messages of a session when the user adds one more

Undef == "undefined"
Null == "null"
NoProcess == 0

\* ------------------------------------------------------------ text helpers
Whitespace == {"sp", "LF"}

RECURSIVE TrimLeft(_)
TrimLeft(s) ==
  IF s # <<>> /\ Head(s) \in Whitespace THEN TrimLeft(Tail(s)) ELSE s

RECURSIVE TrimRight(_)
TrimRight(s) ==
  IF s # <<>> /\ s[Len(s)] \in Whitespace
    THEN TrimRight(SubSeq(s, 1, Len(s) - 1))
    ELSE s

Trim(s) == TrimRight(TrimLeft(s))

\* Buffer.toString(): UTF-8 decoding of ONE chunk, on its own.  A lead byte
\* without its continuation byte in the same chunk, and a continuation byte
\* without its lead byte, each decode to the replacement character.
RECURSIVE Utf8Decode(_)
Utf8Decode(bytes) ==
  IF bytes = <<>> THEN <<>>
  ELSE IF Head(bytes) = "c3"
    THEN IF Len(bytes) >= 2 /\ bytes[2] = "a9"
           THEN <<"E9">> \o Utf8Decode(SubSeq(bytes, 3, Len(bytes)))
           ELSE <<"FFFD">> \o Utf8Decode(Tail(bytes))
  ELSE IF Head(bytes) = "a9"
    THEN <<"FFFD">> \o Utf8Decode(Tail(bytes))
  ELSE <<Head(bytes)>> \o Utf8Decode(Tail(bytes))

\* String.prototype.split('\n')
RECURSIVE SplitLF(_)
SplitLF(s) ==
  IF \A i \in 1..Len(s) : s[i] # "LF" THEN <<s>>
  ELSE LET i == CHOOSE k \in 1..Len(s) :
                  s[k] = "LF" /\ \A j \in 1..(k - 1) : s[j] # "LF"
       IN <<SubSeq(s, 1, i - 1)>> \o SplitLF(SubSeq(s, i + 1, Len(s)))

\* ------------------------------------------------- MessageParser (parser)
EmptyCalls == [id \in {} |-> [name |-> Undef, input |-> Undef]]

NoBlocks == <<>>

Block(type) ==
  [type |-> type, text |-> <<>>, thinking |-> <<>>, id |-> Undef,
   name |-> Undef, input |-> Undef, content |-> Undef, tool_use_id |-> Undef,
   is_error |-> Undef]

Raw(type) ==
  [type |-> type, subtype |-> Undef, session_id |-> Undef,
   hasContent |-> FALSE, blocks |-> NoBlocks, result |-> <<>>,
   name |-> Undef, tool_name |-> Undef, input |-> Undef, is_error |-> Undef]

Msg(type, sid) ==
  [type |-> type, session_id |-> sid, content |-> <<>>, role |-> Undef,
   id |-> Undef, name |-> Undef, input |-> Undef, output |-> Undef,
   is_error |-> Undef, subtype |-> Undef]

\* Characters that may stand inside the text of a record.
TextChars == {"h", "d", "E9", "FFFD", "sp"}

\* The records of the wire format, by the kind letter that follows "{".
RecordOf(kind, payload) ==
  CASE kind = "A" ->
         [Raw("assistant") EXCEPT !.hasContent = TRUE,
            !.blocks = <<[Block("text") EXCEPT !.text = payload]>>]
    [] kind = "R" -> [Raw("result") EXCEPT !.result = payload]
    [] kind = "S" ->
         [Raw("system") EXCEPT !.subtype = "init", !.session_id = "s1"]
    [] kind = "S2" ->
         [Raw("system") EXCEPT !.subtype = "init", !.session_id = "s2"]
    [] kind = "T" ->
         [Raw("assistant") EXCEPT !.hasContent = TRUE,
            !.blocks = <<[Block("tool_use") EXCEPT !.id = "t1",
                            !.name = "Read", !.input = "i1"]>>]
    [] kind = "T2" ->
         [Raw("assistant") EXCEPT !.hasContent = TRUE,
            !.blocks = <<[Block("tool_use") EXCEPT !.id = "t2",
                            !.name = "Grep", !.input = "i2"]>>]
    [] kind = "U" ->
         [Raw("user") EXCEPT !.hasContent = TRUE,
            !.blocks = <<[Block("tool_result") EXCEPT !.tool_use_id = "t1",
                            !.content = "out"]>>]
    [] kind = "Te" ->
         [Raw("assistant") EXCEPT !.hasContent = TRUE,
            !.blocks = <<[Block("tool_use") EXCEPT !.id = "t1",
                            !.name = "Edit", !.input = "i3"]>>]
    [] kind = "Ue" ->
         [Raw("user") EXCEPT !.hasContent = TRUE,
            !.blocks = <<[Block("tool_result") EXCEPT !.tool_use_id = "t1",
                            !.content = "failed", !.is_error = "true"]>>]
    [] kind = "Up" ->
         [Raw("user") EXCEPT !.hasContent = TRUE,
            !.blocks = <<[Block("text") EXCEPT !.text = <<"h">>]>>]
    [] kind = "Un" -> Raw("user")
    [] kind = "An" -> Raw("assistant")
    [] kind = "Ae" ->
         [Raw("assistant") EXCEPT !.hasContent = TRUE,
            !.blocks = <<Block("text")>>]
    [] kind = "Ax" ->
         [Raw("assistant") EXCEPT !.hasContent = TRUE,
            !.blocks = <<Block("image")>>]
    [] kind = "Am" ->
         [Raw("assistant") EXCEPT !.hasContent = TRUE, !.session_id = "s1",
            !.blocks = <<[Block("thinking") EXCEPT !.thinking = <<"d">>],
                         Block("image"),
                         [Block("text") EXCEPT !.text = <<"h">>],
                         [Block("tool_use") EXCEPT !.id = "t2",
                            !.name = "Grep", !.input = "i2"]>>]
    [] OTHER -> Raw("other")

Kinds ==
  {"A", "R", "S", "S2", "T", "T2", "U", "X",
   "Te", "Ue", "Up", "Un", "An", "Ae", "Ax", "Am"}

\* The JSON text {}: a record with no fields at all.
EmptyRecord == <<"{", "}">>

\* JSON.parse: a text decodes iff it is the empty record, or "{", a kind
\* letter, text characters and "}"; everything else (a truncated record,
\* stray characters) throws.
JsonOk(s) ==
  \/ s = EmptyRecord
  \/ /\ Len(s) >= 3
     /\ s[1] = "{"
     /\ s[Len(s)] = "}"
     /\ s[2] \in Kinds
     /\ \A i \in 3..(Len(s) - 1) : s[i] \in TextChars

\* Reading a field the record does not have gives undefined.
JsonParse(s) ==
  IF s = EmptyRecord THEN Raw(Undef)
  ELSE RecordOf(s[2], SubSeq(s, 3, Len(s) - 1))

\* Mutant: tool_use blocks are turned into events but not tracked.
RECURSIVE AssistantBlocksNoTrack(_, _, _, _)
AssistantBlocksNoTrack(blocks, raw, calls, acc) ==
  IF blocks = <<>> THEN [msgs |-> acc, calls |-> calls]
  ELSE
    LET block == Head(blocks)
        rest == Tail(blocks)
    IN IF block.type = "thinking" /\ block.thinking # <<>>
         THEN AssistantBlocksNoTrack(rest, raw, calls,
                Append(acc, [Msg("thinking", raw.session_id)
                               EXCEPT !.content = block.thinking]))
       ELSE IF block.type = "text" /\ block.text # <<>>
         THEN AssistantBlocksNoTrack(rest, raw, calls,
                Append(acc, [Msg(raw.type, raw.session_id)
                               EXCEPT !.content = block.text,
                                      !.role = "assistant"]))
       ELSE IF block.type = "tool_use"
         THEN AssistantBlocksNoTrack(rest, raw, calls,
                Append(acc, [Msg("tool_use", raw.session_id)
                               EXCEPT !.id = block.id, !.name = block.name,
                                      !.input = block.input]))
       ELSE AssistantBlocksNoTrack(rest, raw, calls, acc)

\* normalizeMessage, the loop over the blocks of an assistant record.
RECURSIVE AssistantBlocks(_, _, _, _)
AssistantBlocks(blocks, raw, calls, acc) ==
  IF blocks = <<>> THEN [msgs |-> acc, calls |-> calls]
  ELSE
    LET block == Head(blocks)
        rest == Tail(blocks)
    IN IF block.type = "thinking" /\ block.thinking # <<>>
         THEN AssistantBlocks(rest, raw, calls,
                Append(acc, [Msg("thinking", raw.session_id)
                               EXCEPT !.content = block.thinking]))
       ELSE IF block.type = "text" /\ block.text # <<>>
         THEN AssistantBlocks(rest, raw, calls,
                Append(acc, [Msg(raw.type, raw.session_id)
                               EXCEPT !.content = block.text,
                                      !.role = "assistant"]))
       ELSE IF block.type = "tool_use"
         THEN AssistantBlocks(rest, raw,
                IF block.id # Undef /\ block.name # Undef
                  THEN (block.id :> [name |-> block.name,
                                     input |-> IF block.input = Undef
                                                 THEN "{}" ELSE block.input])
                       @@ calls
                  ELSE calls,
                Append(acc, [Msg("tool_use", raw.session_id)
                               EXCEPT !.id = block.id, !.name = block.name,
                                      !.input = block.input]))
       ELSE AssistantBlocks(rest, raw, calls, acc)

\* Mutant: a tool_result block with an untracked call id yields no event.
RECURSIVE UserBlocksDropUnknown(_, _, _, _)
UserBlocksDropUnknown(blocks, raw, calls, acc) ==
  IF blocks = <<>> THEN [msgs |-> acc, calls |-> calls]
  ELSE
    LET block == Head(blocks)
        rest == Tail(blocks)
    IN IF block.type = "tool_result" /\ block.tool_use_id \in DOMAIN calls
         THEN UserBlocksDropUnknown(rest, raw,
                [id \in (DOMAIN calls) \ {block.tool_use_id} |-> calls[id]],
                Append(acc, [Msg("tool_result", raw.session_id)
                   EXCEPT !.id = block.tool_use_id,
                          !.name = calls[block.tool_use_id].name,
                          !.input = calls[block.tool_use_id].input,
                          !.output = block.content,
                          !.is_error = raw.is_error]))
       ELSE UserBlocksDropUnknown(rest, raw, calls, acc)

\* normalizeMessage, the loop over the blocks of a user record.
RECURSIVE UserBlocks(_, _, _, _)
UserBlocks(blocks, raw, calls, acc) ==
  IF blocks = <<>> THEN [msgs |-> acc, calls |-> calls]
  ELSE
    LET block == Head(blocks)
        rest == Tail(blocks)
        known == block.tool_use_id \in DOMAIN calls
    IN IF block.type = "tool_result" /\ block.tool_use_id # Undef
         THEN UserBlocks(rest, raw,
                [id \in (DOMAIN calls) \ {block.tool_use_id} |-> calls[id]],
                Append(acc, [Msg("tool_result", raw.session_id)
                   EXCEPT !.id = block.tool_use_id,
                          !.name = IF known THEN calls[block.tool_use_id].name
                                            ELSE Undef,
                          !.input = IF known THEN calls[block.tool_use_id].input
                                             ELSE Undef,
                          !.output = block.content,
                          !.is_error = raw.is_error]))
       ELSE UserBlocks(rest, raw, calls, acc)

\* normalizeMessage, the part after the assistant and user branches.
BaseMessage(raw) ==
  LET b0 == Msg(raw.type, raw.session_id)
      b1 == IF raw.type = "result" /\ raw.result # <<>>
              THEN [b0 EXCEPT !.content = raw.result] ELSE b0
      b2 == IF raw.type = "system" /\ raw.subtype = "init"
              THEN [b1 EXCEPT !.subtype = "init"] ELSE b1
      b3 == IF raw.type = "tool_use"
              THEN [b2 EXCEPT !.name = IF raw.name # Undef THEN raw.name
                                                        ELSE raw.tool_name,
                              !.input = raw.input]
              ELSE b2
  IN b3

\* Mutant: an assistant record none of whose blocks maps yields no event.
normalizeMessageNoBare(raw, calls) ==
  IF raw.type = "assistant" /\ raw.hasContent
    THEN AssistantBlocks(raw.blocks, raw, calls, <<>>)
  ELSE
    LET u == IF raw.type = "user" /\ raw.hasContent
               THEN UserBlocks(raw.blocks, raw, calls, <<>>)
               ELSE [msgs |-> <<>>, calls |-> calls]
    IN IF u.msgs # <<>> THEN u
       ELSE [msgs |-> <<BaseMessage(raw)>>, calls |-> u.calls]

\* normalizeMessage, lines 48-133.
normalizeMessage(raw, calls) ==
  IF raw.type = "assistant" /\ raw.hasContent
    THEN LET r == AssistantBlocks(raw.blocks, raw, calls, <<>>)
         IN IF r.msgs = <<>>
              THEN [msgs |-> <<Msg(raw.type, raw.session_id)>>,
                    calls |-> r.calls]
              ELSE r
  ELSE
    LET u == IF raw.type = "user" /\ raw.hasContent
               THEN UserBlocks(raw.blocks, raw, calls, <<>>)
               ELSE [msgs |-> <<>>, calls |-> calls]
    IN IF u.msgs # <<>> THEN u
       ELSE [msgs |-> <<BaseMessage(raw)>>, calls |-> u.calls]

\* parseLine: isNull stands for the null result (blank line, parse error).
parseLine(line, calls) ==
  LET trimmed == Trim(line)
  IN IF trimmed = <<>> \/ ~JsonOk(trimmed)
       THEN [isNull |-> TRUE, msgs |-> <<>>, calls |-> calls]
       ELSE LET n == normalizeMessage(JsonParse(trimmed), calls)
            IN [isNull |-> FALSE, msgs |-> n.msgs, calls |-> n.calls]

\* ------------------------------------------------ SessionManager (store)
\* JSON values as the validator sees them: t is what typeof (or
\* Array.isArray, or the test for null) tells, v the text of the value.
JMissing == [t |-> "undefined", v |-> ""]
JStr(x) == [t |-> "string", v |-> x]
JNum(x) == [t |-> "number", v |-> x]

\* A value of the messages field: an array of message values, or not one.
JList(items) == [t |-> "array", items |-> items]
JNoList(t) == [t |-> t, items |-> <<>>]

\* A message value: an object with its id, role, content and isStreaming
\* fields, or null.
StoredMessage(id, role) ==
  [t |-> "object", id |-> id, role |-> role, content |-> <<>>,
   isStreaming |-> Undef]
NullMessage ==
  [t |-> "null", id |-> JMissing, role |-> JMissing, content |-> <<>>,
   isStreaming |-> Undef]

\* A parsed record: an object with the four fields the validator reads and
\* the external session id, or a value that is not an object (a number,
\* null).
StoredSession(id, messages, createdAt, updatedAt) ==
  [t |-> "object", id |-> id, messages |-> messages,
   createdAt |-> createdAt, updatedAt |-> updatedAt,
   claudeSessionId |-> JMissing]
NotAnObject(t) ==
  [t |-> t, id |-> JMissing, messages |-> JNoList("undefined"),
   createdAt |-> JMissing, updatedAt |-> JMissing,
   claudeSessionId |-> JMissing]

\* isValidSession, lines 8-28.
isValidSession(obj) ==
  /\ obj.t = "object"
  /\ obj.id.t = "string" /\ obj.id.v # ""
  /\ obj.messages.t = "array"
  /\ obj.createdAt.t = "number"
  /\ obj.updatedAt.t = "number"
  /\ \A i \in 1..Len(obj.messages.items) :
       LET message == obj.messages.items[i]
       IN /\ message.t = "object"
          /\ message.id.t = "string"
          /\ message.role = JStr("user") \/ message.role = JStr("assistant")

\* A file of the storage folder.  json: its name ends in ".json"; state:
\* "ok", "garbled" (JSON.parse throws) or "unreadable" (read throws);
\* value: what JSON.parse returns when state is "ok".
StoredFile(json, state, value) ==
  [json |-> json, state |-> state, value |-> value]

NoSessions == [id \in {} |-> NotAnObject("undefined")]

\* loadSessions, lines 67-83: one turn of the loop over listing.files.
LoadFile(file, loaded) ==
  IF ~file.json THEN loaded
  ELSE IF file.state # "ok" THEN loaded
  ELSE IF ~isValidSession(file.value) THEN loaded
  ELSE (file.value.id.v :> file.value) @@ loaded

\* loadSessions, lines 65-84: the loop, in the order of the listing.
RECURSIVE LoadFiles(_, _)
LoadFiles(files, loaded) ==
  IF files = <<>> THEN loaded
  ELSE LoadFiles(Tail(files), LoadFile(Head(files), loaded))

\* Date.now(): the clock is not modelled, every reading is the same instant.
Now == JNum("2")

\* generateId, lines 205-207 (time and nine random characters): an id that
\* differs from those generated before; the n-th one is called n<n>.
SessionId(n) == "n" \o ToString(n)

\* ChatPanelView.generateId, lines 888-890 (time and nine random
\* characters): an id that differs from those generated before for the
\* transcript; the one of its k-th message is called m<k>.
MessageId(k) == "m" \o ToString(k)

\* A ChatMessage, as sendMessage builds it.
ChatMessage(id, role, content) ==
  [StoredMessage(JStr(id), JStr(role)) EXCEPT !.content = content]

\* A saveSession call in flight: the text it serialized when it was called,
\* and where it stands: "exists" (awaiting adapter.exists), "write"
\* (awaiting adapter.write), "create" (awaiting vault.create).
SaveCall(session) ==
  [id |-> session.id.v, content |-> session, stage |-> "exists"]

\* The file <id>.json.  In a folder that only saveSession wrote to, it is
\* the file that holds the record with that id.
IsFileOf(file, id) ==
  file.json /\ file.state = "ok" /\ file.value.id = JStr(id)

HasFile(files, id) == \E i \in 1..Len(files) : IsFileOf(files[i], id)

\* adapter.write: replaces the content of the file, creates it if absent.
WriteFile(files, id, content) ==
  IF HasFile(files, id)
    THEN [i \in 1..Len(files) |->
            IF IsFileOf(files[i], id) THEN StoredFile(TRUE, "ok", content)
                                      ELSE files[i]]
    ELSE Append(files, StoredFile(TRUE, "ok", content))

\* vault.create: throws when the file exists (saveSession logs the error).
CreateFile(files, id, content) ==
  IF HasFile(files, id) THEN files
  ELSE Append(files, StoredFile(TRUE, "ok", content))

\* vault.delete
RemoveFile(files, id) == SelectSeq(files, LAMBDA f : ~IsFileOf(f, id))

\* The state of a SessionManager the operations below work on.
StoreOf(ss, active, saves, n) ==
  [sessions |-> ss, activeSessionId |-> active, pendingSaves |-> saves,
   created |-> n]

\* createSession, lines 91-105.
createSession(st) ==
  LET id == SessionId(st.created + 1)
  IN [st EXCEPT
        !.sessions = (id :> StoredSession(JStr(id), JList(<<>>), Now, Now))
                       @@ @,
        !.activeSessionId = id,
        !.created = @ + 1]

\* getActiveSession, lines 111-114; the null value when there is none.
getActiveSession(st) ==
  IF st.activeSessionId \in DOMAIN st.sessions
    THEN st.sessions[st.activeSessionId]
    ELSE NotAnObject("null")

\* setActiveSession, lines 116-118.
setActiveSession(st, id) == [st EXCEPT !.activeSessionId = id]

\* saveSession, lines 154-157: up to the first await.
saveSession(st, session) ==
  [st EXCEPT !.pendingSaves = @ \cup {SaveCall(session)}]

\* addMessage, lines 120-130; auto: settings.autoSaveSessions.
addMessage(st, sessionId, message, auto) ==
  IF sessionId \notin DOMAIN st.sessions THEN st
  ELSE
    LET session == [st.sessions[sessionId] EXCEPT
                      !.messages.items = Append(@, message),
                      !.updatedAt = Now]
        s1 == [st EXCEPT !.sessions[sessionId] = session]
    IN IF auto THEN saveSession(s1, session) ELSE s1

\* updateLastMessage, lines 132-139.
updateLastMessage(st, sessionId, content) ==
  IF sessionId \notin DOMAIN st.sessions THEN st
  ELSE IF st.sessions[sessionId].messages.items = <<>> THEN st
  ELSE LET last == Len(st.sessions[sessionId].messages.items)
       IN [st EXCEPT
             !.sessions[sessionId].messages.items[last].content = content,
             !.sessions[sessionId].messages.items[last].isStreaming = "true"]

\* finalizeLastMessage, lines 141-152; auto: settings.autoSaveSessions.
finalizeLastMessage(st, sessionId, auto) ==
  IF sessionId \notin DOMAIN st.sessions THEN st
  ELSE IF st.sessions[sessionId].messages.items = <<>> THEN st
  ELSE
    LET last == Len(st.sessions[sessionId].messages.items)
        session == [st.sessions[sessionId] EXCEPT
                      !.messages.items[last].isStreaming = "false",
                      !.updatedAt = Now]
        s1 == [st EXCEPT !.sessions[sessionId] = session]
    IN IF auto THEN saveSession(s1, session) ELSE s1

\* Mutant: deleteSession leaves the entry of the session in the Map.
deleteEntryNever(st, id) == st

\* deleteSession, line 186: this.sessions.delete(id)
deleteEntry(st, id) ==
  [st EXCEPT !.sessions = [k \in (DOMAIN @) \ {id} |-> @[k]]]

\* setClaudeSessionId, lines 198-203.
setClaudeSessionId(st, sessionId, claudeSessionId) ==
  IF sessionId \notin DOMAIN st.sessions THEN st
  ELSE [st EXCEPT !.sessions[sessionId].claudeSessionId =
                     JStr(claudeSessionId)]

\* --------------------------------------------- ClaudeCliService (state)
VARIABLES
  activeProcess,    \* ClaudeCliService.activeProcess: NoProcess or a run
  runs,             \* the runs execute() has started, in spawn order
  activeToolCalls,  \* MessageParser.activeToolCalls
  queuedInput,      \* ClaudeCliService.queuedInput
  awaiting,         \* sendMessage calls suspended before execute()
  followUps,        \* follow-up timers armed by sendMessage's finally
  scope,            \* which family of behaviours, see StreamsFor
  sessions,         \* SessionManager.sessions
  storage,          \* the files of the storage folder, in listing order
  initialized,      \* SessionManager.initialize() has returned
  activeSessionId,  \* SessionManager.activeSessionId
  pendingSaves,     \* saveSession calls in flight
  pendingDeletes,   \* deleteSession calls awaiting vault.delete
  created,          \* how many ids SessionManager.generateId has returned
  autoSave,         \* settings.autoSaveSessions
  currentSessionId, \* ChatPanelView.currentSessionId
  accumulatedContent  \* ChatPanelView.accumulatedContent

vars ==
  <<activeProcess, runs, activeToolCalls, queuedInput, awaiting, followUps,
    scope, sessions, storage, initialized, activeSessionId, pendingSaves,
    pendingDeletes, created, autoSave, currentSessionId, accumulatedContent>>

\* What the operations of the session manager work on, and the rest of it.
managerVars == <<sessions, activeSessionId, pendingSaves, created>>

diskVars == <<storage, initialized, pendingDeletes, autoSave>>

storeVars == <<managerVars, diskVars>>

viewVars == <<currentSessionId, accumulatedContent>>

Store == StoreOf(sessions, activeSessionId, pendingSaves, created)

SetStore(st) ==
  /\ sessions' = st.sessions
  /\ activeSessionId' = st.activeSessionId
  /\ pendingSaves' = st.pendingSaves
  /\ created' = st.created

RunIds == 1..Len(runs)

NoMsg == Msg(Undef, Undef)

Notify(ev, msg, text) == [ev |-> ev, msg |-> msg, text |-> text]

NoOutcome ==
  [success |-> FALSE, sessionId |-> Undef, messages |-> <<>>,
   finalContent |-> <<>>, error |-> <<>>]

\* The closure of one execute() call together with its process.
\*   status   "alive": spawned, not closed; "nolaunch": spawn failed, 'error'
\*            not yet delivered; "errored": 'error' delivered; "closed"
\*   stream   what the process writes to stdout if it lives long enough
\*   pos      how many bytes of stream have been delivered in 'data' events
\*   signalled  kill('SIGTERM') was called on the process
\*   lateData   a 'data' event arrived after that call (history)
\*   parseCalls, emitted, flushed  history of parseLine calls, of emit()
\*            calls, and of the text the close handler parsed
\*   errorShown  the caller has shown the user an error for this run
\*   session  ChatPanelView.currentSessionId when execute() was called
\*            (history)
NewRun(stream, launched, caller) ==
  [status |-> IF launched THEN "alive" ELSE "nolaunch",
   caller |-> caller,
   stream |-> stream, pos |-> 0,
   buffer |-> <<>>, messages |-> <<>>, sessionId |-> Undef,
   finalContent |-> <<>>, stderrData |-> <<>>,
   timer |-> "armed", signalled |-> FALSE, lateData |-> FALSE,
   exitCode |-> Undef,
   promise |-> "pending", outcome |-> NoOutcome,
   parseCalls |-> <<>>, emitted |-> <<>>, flushed |-> <<>>,
   errorShown |-> FALSE, session |-> Null]

isRunning == activeProcess # NoProcess

\* A promise settles once: resolve and reject on a settled promise do nothing.
Settle(promise, how) == IF promise = "pending" THEN how ELSE promise

\* --------------------------------------- execute(): stdout 'data' handler
\* lines 109-134: what the handler does with one parsed message.
HandleParsed(st, parsed) ==
  LET s1 == [st EXCEPT
               !.run.messages = Append(@, parsed),
               !.run.sessionId =
                  IF parsed.session_id # Undef THEN parsed.session_id ELSE @,
               !.run.emitted = Append(@, Notify("message", parsed, <<>>))]
      s2 == IF parsed.type = "assistant" /\ parsed.content # <<>>
              THEN [s1 EXCEPT
                      !.run.finalContent = parsed.content,
                      !.run.emitted =
                         Append(@, Notify("partial", NoMsg, parsed.content))]
              ELSE s1
      s3 == IF parsed.type = "result" /\ parsed.content # <<>>
              THEN [s2 EXCEPT
                      !.run.finalContent = parsed.content,
                      !.run.emitted =
                         Append(@, Notify("partial", NoMsg, parsed.content))]
              ELSE s2
  IN s3

RECURSIVE HandleAllParsed(_, _)
HandleAllParsed(st, msgs) ==
  IF msgs = <<>> THEN st
  ELSE HandleAllParsed(HandleParsed(st, Head(msgs)), Tail(msgs))

\* lines 103-140: the loop over the complete lines of one chunk.
RECURSIVE ProcessLines(_, _)
ProcessLines(st, lines) ==
  IF lines = <<>> THEN st
  ELSE
    LET line == Head(lines)
    IN IF Trim(line) = <<>> THEN ProcessLines(st, Tail(lines))
       ELSE
         LET p == parseLine(line, st.calls)
             s0 == [st EXCEPT !.calls = p.calls,
                              !.run.parseCalls = Append(@, line)]
             s1 == IF p.isNull THEN s0 ELSE HandleAllParsed(s0, p.msgs)
         IN ProcessLines(s1, Tail(lines))

\* Mutant: the last part, the incomplete line, is processed with the others.
CompleteLinesWithPartial(parts) == parts

\* lines 100-101: const lines = buffer.split('\n'); buffer = lines.pop() || ''
CompleteLines(parts) == SubSeq(parts, 1, Len(parts) - 1)

RetainedBuffer(parts) == parts[Len(parts)]

\* lines 96-141: the whole 'data' handler, for a chunk of bytes.
OnStdoutData(run, calls, chunk) ==
  LET parts == SplitLF(run.buffer \o Utf8Decode(chunk))
      st == [run |-> [run EXCEPT !.buffer = RetainedBuffer(parts),
                                 !.lateData = run.signalled,
                                 !.pos = @ + Len(chunk)],
             calls |-> calls]
  IN ProcessLines(st, CompleteLines(parts))

\* --------------------------------------------- execute(): 'close' handler
\* lines 160-166: what the close handler does with one parsed message.
HandleFinalParsed(st, parsed) ==
  LET s1 == [st EXCEPT !.run.messages = Append(@, parsed)]
  IN IF parsed.type = "result" /\ parsed.content # <<>>
       THEN [s1 EXCEPT
               !.run.finalContent = parsed.content,
               !.run.emitted =
                  Append(@, Notify("partial", NoMsg, parsed.content))]
       ELSE s1

RECURSIVE HandleAllFinalParsed(_, _)
HandleAllFinalParsed(st, msgs) ==
  IF msgs = <<>> THEN st
  ELSE HandleAllFinalParsed(HandleFinalParsed(st, Head(msgs)), Tail(msgs))

\* Mutant: the close handler drops the remaining buffer.
FlushBufferNever(st) == st

\* lines 155-171: process any remaining buffer.
FlushBuffer(st) ==
  IF Trim(st.run.buffer) = <<>> THEN st
  ELSE
    LET p == parseLine(st.run.buffer, st.calls)
        s0 == [st EXCEPT !.calls = p.calls,
                         !.run.parseCalls = Append(@, st.run.buffer),
                         !.run.flushed = st.run.buffer]
    IN IF p.isNull THEN s0 ELSE HandleAllFinalParsed(s0, p.msgs)

\* Mutant: success decided by the exit status alone.
SucceedsOnCleanExitOnly(code, finalContent) == code = "0"

\* line 173: if (code === 0 || finalContent)
Succeeds(code, finalContent) == code = "0" \/ finalContent # <<>>

\* Mutant: the error detail is the captured error channel, with no fallback.
ErrorDetailNoFallback(stderrData, code) == stderrData

\* line 184: stderrData || `Process exited with code ${code}`
ErrorDetail(stderrData, code) ==
  IF stderrData # <<>> THEN stderrData
  ELSE <<"Process exited with code ", code>>

\* lines 173-186: the outcome the promise is resolved with.
Outcome(run, code) ==
  IF Succeeds(code, run.finalContent)
    THEN [success |-> TRUE, sessionId |-> run.sessionId,
          messages |-> run.messages, finalContent |-> run.finalContent,
          error |-> <<>>]
    ELSE [success |-> FALSE, sessionId |-> Undef,
          messages |-> run.messages, finalContent |-> <<>>,
          error |-> ErrorDetail(run.stderrData, code)]

\* line 151 / 190: clearTimeout(timeout)
ClearTimeout(timer) == IF timer = "armed" THEN "cleared" ELSE timer

\* lines 150-187: the whole 'close' handler, on the run's own closure.
OnClose(run, calls, code) ==
  LET st == FlushBuffer([run |-> [run EXCEPT
                                    !.timer = ClearTimeout(@),
                                    !.status = "closed",
                                    !.exitCode = code],
                         calls |-> calls])
      settles == st.run.promise = "pending"
  IN [st EXCEPT
        !.run.promise = Settle(@, "resolved"),
        !.run.outcome = IF settles THEN Outcome(st.run, code) ELSE @]

\* Mutant: the 'error' handler forgets clearTimeout.
OnErrorKeepsTimeout(run) ==
  [run EXCEPT !.status = "errored", !.promise = Settle(@, "rejected")]

\* lines 189-194: the whole 'error' handler, on the run's own closure.
OnError(run) ==
  [run EXCEPT !.timer = ClearTimeout(@),
              !.status = "errored",
              !.promise = Settle(@, "rejected")]

\* ------------------------------------------------- what a process writes
LnText == <<"{", "A", "h", "}">>             \* assistant record, text "h"
LnAccent == <<"{", "A", "c3", "a9", "}">>    \* assistant record, text U+00E9
LnResult == <<"{", "R", "d", "}">>           \* result record, text "d"
LnInit == <<"{", "S", "}">>                  \* system init record
LnInit2 == <<"{", "S2", "}">>                \* the same, another session id
LnTool == <<"{", "T", "}">>                  \* assistant record, tool_use t1
LnTool2 == <<"{", "T2", "}">>                \* assistant record, tool_use t2
LnToolResult == <<"{", "U", "}">>            \* user record, tool_result t1
LnEmpty == EmptyRecord                       \* a record with no type
LnBlank == <<"sp">>                          \* a blank line
LnTruncated == <<"{", "A">>                  \* a record cut short
LnToolAgain == <<"{", "Te", "}">>            \* tool_use t1 again, other name
LnToolError == <<"{", "Ue", "}">>            \* tool_result t1, block in error
LnUserText == <<"{", "Up", "}">>             \* user record, one text block
LnUserBare == <<"{", "Un", "}">>             \* user record, no content
LnAssistantBare == <<"{", "An", "}">>        \* assistant record, no content
LnAssistantEmpty == <<"{", "Ae", "}">>       \* assistant record, empty text
LnAssistantOther == <<"{", "Ax", "}">>       \* assistant record, image block
LnAssistantMixed == <<"{", "Am", "}">>       \* thinking, image, text, tool_use

StreamLines == {LnAccent, LnResult, LnBlank}

Partials == {<<>>, LnText, LnResult, LnTruncated}

SeqsUpTo(S, n) == UNION {[1..k -> S] : k \in 0..n}

RECURSIVE JoinLines(_)
JoinLines(ls) ==
  IF ls = <<>> THEN <<>> ELSE Head(ls) \o <<"LF">> \o JoinLines(Tail(ls))

\* N complete lines followed by a trailing partial line.
RichStreams ==
  {JoinLines(ls) \o p : ls \in SeqsUpTo(StreamLines, MaxLines), p \in Partials}

PlainStreams == {LnInit \o <<"LF">>}

ProtocolLines ==
  {LnInit, LnInit2, LnTool, LnTool2, LnToolResult, LnEmpty, LnTruncated}

\* N complete protocol lines followed by nothing or by an unterminated one.
ProtocolStreams ==
  {JoinLines(ls) \o p : ls \in SeqsUpTo(ProtocolLines, MaxLines),
                        p \in {<<>>} \cup ProtocolLines}

ParserLines ==
  {LnTool, LnToolAgain, LnToolResult, LnToolError, LnUserText, LnUserBare,
   LnAssistantBare, LnAssistantEmpty, LnAssistantOther, LnAssistantMixed}

\* Up to MaxLines complete lines, of every kind of assistant and user record.
ParserStreams == {JoinLines(ls) : ls \in SeqsUpTo(ParserLines, MaxLines)}

\* One complete line: a tool call, or the result of the tool call t1.
ReuseStreams ==
  {JoinLines(<<l>>) : l \in {LnTool, LnTool2, LnToolResult, LnInit}}

\* A session id and a text; another session id and no text; a text and no
\* session id.
SessionStreams ==
  {JoinLines(<<LnInit, LnText>>), JoinLines(<<LnInit2>>),
   JoinLines(<<LnText>>)}

\* The length of the first line of rest, its line feed included.
LineEnd(rest) ==
  IF \A i \in 1..Len(rest) : rest[i] # "LF" THEN Len(rest)
  ELSE CHOOSE k \in 1..Len(rest) :
         rest[k] = "LF" /\ \A j \in 1..(k - 1) : rest[j] # "LF"

\* The families of behaviours.
\*   "stream"    one run writes any of the rich streams, cut into chunks of
\*               every size up to MaxChunk;
\*   "lifecycle" up to MaxRuns runs, of the chat panel and of inline blocks,
\*               write a plain stream and exit with status 0 unless killed;
\*   "protocol"  one run writes any of the protocol streams, a line at a time;
\*   "queue"     up to MaxRuns runs of the chat panel and two prompts;
\*   "parser"    one run writes any of the parser streams, a line at a time;
\*   "reuse"     up to MaxRuns runs of the chat panel, one after the other,
\*               each writing one line;
\*   "session"   up to MaxRuns runs of the chat panel, which resolve with or
\*               without a session id and a text, or fail, each writing its
\*               output at once, while the user starts, loads and deletes
\*               sessions; the web context is switched off.
StreamsFor(sc) ==
  CASE sc = "stream" -> RichStreams
    [] sc = "protocol" -> ProtocolStreams
    [] sc = "parser" -> ParserStreams
    [] sc = "reuse" -> ReuseStreams
    [] sc = "session" -> SessionStreams
    [] OTHER -> PlainStreams

RunLimit(sc) ==
  IF sc \in {"lifecycle", "queue", "reuse", "session"} THEN MaxRuns ELSE 1

\* rest: the bytes the process has still to write.
ChunkSizes(sc, rest) ==
  IF sc = "stream" THEN 1..MaxChunk
  ELSE IF sc = "session" THEN {Len(rest)}
  ELSE {LineEnd(rest)}

\* includeWebContext, the toggle of the chat panel.
Webs(sc) == IF sc = "session" THEN {FALSE} ELSE BOOLEAN

Prompts(sc) == IF sc = "queue" THEN {"p1", "p2"} ELSE {"p1"}

\* The exit statuses of a process that ends by itself.
ExitCodes(sc) == IF sc \in {"stream", "session"} THEN {"0", "1"} ELSE {"0"}

\* ---------------------------------------------------------------- actions
\* Node delivers the 'error' of a failed spawn on the next tick, before any
\* other callback runs.
NoTickPending == \A r \in RunIds : runs[r].status # "nolaunch"

\* execute(), lines 51-93: spawn, arm the timeout, register the handlers.
Spawn(caller) ==
  \E stream \in StreamsFor(scope), launched \in BOOLEAN :
    /\ runs' = Append(runs, [NewRun(stream, launched, caller)
                               EXCEPT !.session = currentSessionId])
    /\ activeProcess' = Len(runs) + 1

\* Mutant: a pending text is not replaced by a later one.
queueInputKeepsFirst(input) ==
  IF isRunning
    THEN [accepted |-> TRUE,
          slot |-> IF queuedInput = Null THEN input ELSE queuedInput]
    ELSE [accepted |-> FALSE, slot |-> queuedInput]

\* queueInput, lines 250-258.
queueInput(input) ==
  IF isRunning THEN [accepted |-> TRUE, slot |-> input]
               ELSE [accepted |-> FALSE, slot |-> queuedInput]

\* ---------------------------------------------------- ChatPanelView
\* handleStreamMessage, lines 411-420, and updateStreamingMessage, lines
\* 476-490: what one notification does to accumulatedContent.
OnNotify(acc, e) ==
  IF e.ev = "partial" THEN e.text
  ELSE IF e.msg.type = "assistant" /\ e.msg.content # <<>> THEN e.msg.content
  ELSE acc

RECURSIVE OnNotifyAll(_, _)
OnNotifyAll(acc, es) ==
  IF es = <<>> THEN acc ELSE OnNotifyAll(OnNotify(acc, Head(es)), Tail(es))

\* The notifications a handler has emitted: those of after not in before.
Emitted(before, after) ==
  SubSeq(after.emitted, Len(before.emitted) + 1, Len(after.emitted))

\* The id generateId gives the next message of a transcript.
NextMessageId(st, sessionId) ==
  MessageId(IF sessionId \in DOMAIN st.sessions
              THEN Len(st.sessions[sessionId].messages.items) + 1
              ELSE 1)

\* The user can add a message to the transcript (bound of the model).
TranscriptRoom ==
  currentSessionId \in DOMAIN sessions =>
    Len(sessions[currentSessionId].messages.items) < MaxMessages

\* ChatPanelView.sendMessage, lines 282-363, up to its first suspension.
\* web: includeWebContext, which makes the call suspend before execute().
SendMessage(rawPrompt, web) ==
  LET userMessage ==
        ChatMessage(NextMessageId(Store, currentSessionId), "user",
                    <<rawPrompt>>)
      added == addMessage(Store, currentSessionId, userMessage, autoSave)
  IN IF isRunning
       THEN /\ queuedInput' = queueInput(rawPrompt).slot
            /\ SetStore(IF queueInput(rawPrompt).accepted THEN added
                                                          ELSE Store)
            /\ UNCHANGED <<activeProcess, runs, awaiting, accumulatedContent>>
       ELSE /\ Len(runs) + Len(awaiting) < RunLimit(scope)
            /\ UNCHANGED queuedInput
            /\ SetStore(added)
            /\ accumulatedContent' = <<>>
            /\ IF web
                 THEN /\ awaiting' = Append(awaiting, rawPrompt)
                      /\ UNCHANGED <<activeProcess, runs>>
                 ELSE /\ Spawn("chat")
                      /\ UNCHANGED awaiting

\* The user submits a prompt in the chat panel.
UserSend ==
  /\ NoTickPending
  /\ TranscriptRoom
  /\ \E rawPrompt \in Prompts(scope), web \in Webs(scope) :
       SendMessage(rawPrompt, web)
  /\ UNCHANGED <<activeToolCalls, followUps, scope>>
  /\ UNCHANGED <<diskVars, currentSessionId>>

\* sendMessage resumes after await getWebViewerContext() and calls execute().
SendResume ==
  /\ NoTickPending
  /\ awaiting # <<>>
  /\ awaiting' = Tail(awaiting)
  /\ Spawn("chat")
  /\ UNCHANGED <<activeToolCalls, queuedInput, followUps, scope>>
  /\ UNCHANGED <<storeVars, viewVars>>

\* InlineChatBlock.executeAndUpdate, lines 144-162: execute() with no
\* isRunning() check.
InlineExecute ==
  /\ NoTickPending
  /\ Len(runs) + Len(awaiting) < RunLimit(scope)
  /\ Spawn("inline")
  /\ UNCHANGED <<activeToolCalls, queuedInput, awaiting, followUps, scope>>
  /\ UNCHANGED <<storeVars, viewVars>>

\* sendMessage, lines 364-379: after execute() has resolved with result.
\* current: currentSessionId; acc: accumulatedContent.
OnResolved(st, current, result, acc, auto) ==
  LET s1 == IF result.sessionId # Undef
              THEN setClaudeSessionId(st, current, result.sessionId)
              ELSE st
  IN IF acc # <<>>
       THEN addMessage(s1, current,
              ChatMessage(NextMessageId(s1, current), "assistant", acc), auto)
       ELSE s1

\* sendMessage, lines 383-384, and executeAndUpdate, lines 178-185: the
\* catch block shows the user the error execute() was rejected with.
Catch(run) == [run EXCEPT !.errorShown = TRUE]

\* getAndClearQueuedInput, lines 263-267.
getAndClearQueuedInput(slot) == [input |-> slot, slot |-> Null]

\* sendMessage's finally block, lines 385-398, run when execute() settles.
\* executeAndUpdate of an inline block has no such step.
Finally(caller) ==
  IF caller = "chat"
    THEN LET taken == getAndClearQueuedInput(queuedInput)
         IN /\ queuedInput' = taken.slot
            /\ followUps' = IF taken.input # Null
                              THEN Append(followUps, taken.input)
                              ELSE followUps
    ELSE UNCHANGED <<queuedInput, followUps>>

\* The follow-up timer of lines 393-396 fires: sendMessage() again.
FollowUpFires ==
  /\ NoTickPending
  /\ followUps # <<>>
  /\ followUps' = Tail(followUps)
  /\ \E web \in Webs(scope) : SendMessage(Head(followUps), web)
  /\ UNCHANGED <<activeToolCalls, scope>>
  /\ UNCHANGED <<diskVars, currentSessionId>>

\* The process of run r writes n more bytes and the 'data' handler runs.
StdoutData(r) ==
  /\ NoTickPending
  /\ runs[r].status = "alive"
  /\ \E n \in ChunkSizes(scope, SubSeq(runs[r].stream, runs[r].pos + 1,
                                        Len(runs[r].stream))) :
     /\ n >= 1
     /\ runs[r].pos + n <= Len(runs[r].stream)
     /\ LET chunk == SubSeq(runs[r].stream, runs[r].pos + 1, runs[r].pos + n)
            st == OnStdoutData(runs[r], activeToolCalls, chunk)
        IN /\ runs' = [runs EXCEPT ![r] = st.run]
           /\ activeToolCalls' = st.calls
           /\ accumulatedContent' =
                OnNotifyAll(accumulatedContent, Emitted(runs[r], st.run))
  /\ UNCHANGED <<activeProcess, queuedInput, awaiting, followUps, scope>>
  /\ UNCHANGED <<storeVars, currentSessionId>>

\* lines 145-148: the process writes to its error channel.
StderrData(r) ==
  /\ NoTickPending
  /\ runs[r].status = "alive"
  /\ runs[r].stderrData = <<>>
  /\ runs' = [runs EXCEPT ![r].stderrData = @ \o <<"E">>]
  /\ UNCHANGED <<activeProcess, activeToolCalls, queuedInput, awaiting,
                 followUps, scope>>
  /\ UNCHANGED <<storeVars, viewVars>>

\* The codes 'close' can report for run r: an exit status, null when the
\* process died of the signal, the negative errno after a failed spawn.
CloseCodes(run) ==
  IF run.status = "errored" THEN {"-2"}
  ELSE ExitCodes(scope) \cup (IF run.signalled THEN {"null"} ELSE {})

\* The process of run r has gone and its streams are closed: 'close'.  When
\* the handler resolves the promise, the caller's sendMessage continues.
ProcessClose(r, code) ==
  /\ NoTickPending
  /\ runs[r].status \in {"alive", "errored"}
  /\ code \in CloseCodes(runs[r])
  /\ LET st == OnClose(runs[r], activeToolCalls, code)
         acc == OnNotifyAll(accumulatedContent, Emitted(runs[r], st.run))
     IN /\ runs' = [runs EXCEPT ![r] = st.run]
        /\ activeToolCalls' = st.calls
        /\ accumulatedContent' = acc
        /\ IF runs[r].promise = "pending" /\ runs[r].caller = "chat"
             THEN SetStore(OnResolved(Store, currentSessionId,
                                      st.run.outcome, acc, autoSave))
             ELSE UNCHANGED managerVars
  /\ activeProcess' = NoProcess
  /\ IF runs[r].promise = "pending"
       THEN Finally(runs[r].caller)
       ELSE UNCHANGED <<queuedInput, followUps>>
  /\ UNCHANGED <<awaiting, scope>>
  /\ UNCHANGED <<diskVars, currentSessionId>>

\* The spawn of run r failed: 'error'.  The promise is rejected and the
\* caller's catch block runs.
LaunchError(r) ==
  /\ runs[r].status = "nolaunch"
  /\ runs' = [runs EXCEPT ![r] = Catch(OnError(@))]
  /\ activeProcess' = NoProcess
  /\ Finally(runs[r].caller)
  /\ UNCHANGED <<activeToolCalls, awaiting, scope>>
  /\ UNCHANGED <<storeVars, viewVars>>

\* kill('SIGTERM') on the process activeProcess refers to.
Kill(rs, target) ==
  IF target # NoProcess /\ rs[target].status = "alive"
    THEN [rs EXCEPT ![target].signalled = TRUE]
    ELSE rs

\* lines 88-93: the timeout armed by run r expires.
TimeoutExpires(r) ==
  /\ NoTickPending
  /\ runs[r].timer = "armed"
  /\ runs' = Kill([runs EXCEPT ![r].timer = "fired"], activeProcess)
  /\ UNCHANGED <<activeProcess, activeToolCalls, queuedInput, awaiting,
                 followUps, scope>>
  /\ UNCHANGED <<storeVars, viewVars>>

\* abort(), lines 234-239 (ChatPanelView.abortRequest).
Abort ==
  /\ NoTickPending
  /\ isRunning
  /\ runs' = Kill(runs, activeProcess)
  /\ activeProcess' = NoProcess
  /\ UNCHANGED <<activeToolCalls, queuedInput, awaiting, followUps, scope>>
  /\ UNCHANGED <<storeVars, viewVars>>

serviceVars ==
  <<activeProcess, runs, activeToolCalls, queuedInput, awaiting, followUps,
    scope>>

\* startNewSession, lines 800-805.
StartNewSession ==
  /\ NoTickPending
  /\ created < MaxSessions
  /\ LET st == createSession(Store)
     IN /\ SetStore(st)
        /\ currentSessionId' = st.activeSessionId
  /\ UNCHANGED <<serviceVars, diskVars, accumulatedContent>>

\* loadSession, lines 807-815: the user picks a session of the history.
LoadSession ==
  /\ NoTickPending
  /\ \E sessionId \in DOMAIN sessions :
       /\ sessionId # currentSessionId
       /\ currentSessionId' = sessionId
       /\ SetStore(setActiveSession(Store, sessionId))
  /\ UNCHANGED <<serviceVars, diskVars, accumulatedContent>>

\* What follows the completion of deleteSession(id): nothing for a call of
\* the store itself, lines 177-179 of ChatPanelView.deleteSession for a call
\* of the chat panel.
AfterDelete(caller, id, st) ==
  IF caller = "view" /\ id = currentSessionId
    THEN LET s1 == createSession(st)
         IN /\ st.created < MaxSessions
            /\ SetStore(s1)
            /\ currentSessionId' = s1.activeSessionId
    ELSE /\ SetStore(st)
         /\ UNCHANGED currentSessionId

\* deleteSession, lines 182-196, up to await vault.delete(file), or to its
\* end when there is no file.
deleteSession(caller, id) ==
  LET st == deleteEntry(Store, id)
  IN IF HasFile(storage, id)
       THEN /\ SetStore(st)
            /\ pendingDeletes' =
                 pendingDeletes \cup {[id |-> id, caller |-> caller]}
            /\ UNCHANGED currentSessionId
       ELSE /\ AfterDelete(caller, id, st)
            /\ UNCHANGED pendingDeletes

\* ChatPanelView.deleteSession, lines 175-181: the user deletes a session of
\* the history.
ViewDeleteSession ==
  /\ NoTickPending
  /\ \E id \in DOMAIN sessions : deleteSession("view", id)
  /\ UNCHANGED <<serviceVars, storage, initialized, autoSave,
                 accumulatedContent>>

\* vault.delete has removed the file: the deleteSession call d returns.
DeleteFinish(d) ==
  /\ storage' = RemoveFile(storage, d.id)
  /\ pendingDeletes' = pendingDeletes \ {d}
  /\ AfterDelete(d.caller, d.id, Store)
  /\ UNCHANGED <<serviceVars, initialized, autoSave, accumulatedContent>>

\* saveSession, lines 161-162: adapter.exists has answered the call c.
SaveCheck(c) ==
  /\ c.stage = "exists"
  /\ pendingSaves' =
       (pendingSaves \ {c})
         \cup {[c EXCEPT !.stage = IF HasFile(storage, c.id) THEN "write"
                                                              ELSE "create"]}
  /\ UNCHANGED <<serviceVars, sessions, activeSessionId, created, diskVars,
                 viewVars>>

\* saveSession, lines 163-169: adapter.write or vault.create of the call c
\* has finished, or has thrown.
SaveFinish(c) ==
  /\ c.stage \in {"write", "create"}
  /\ storage' = IF c.stage = "write"
                  THEN WriteFile(storage, c.id, c.content)
                  ELSE CreateFile(storage, c.id, c.content)
  /\ pendingSaves' = pendingSaves \ {c}
  /\ UNCHANGED <<serviceVars, sessions, activeSessionId, created,
                 initialized, pendingDeletes, autoSave, viewVars>>

\* How many sessions a behaviour may create.
SessionLimit(sc) == IF sc = "delete" THEN MaxSessions + 1 ELSE MaxSessions

\* The operations of the session manager, called with any arguments.
CreateSession ==
  /\ created < SessionLimit(scope)
  /\ SetStore(createSession(Store))
  /\ UNCHANGED <<serviceVars, diskVars, viewVars>>

RECURSIVE SumOver(_)
SumOver(f) ==
  IF DOMAIN f = {} THEN 0
  ELSE LET x == CHOOSE y \in DOMAIN f : TRUE
       IN f[x] + SumOver([y \in (DOMAIN f) \ {x} |-> f[y]])

\* The messages of all sessions together (bound of the model).
TotalMessages ==
  SumOver([id \in DOMAIN sessions |-> Len(sessions[id].messages.items)])

AddMessage ==
  /\ \E sessionId \in DOMAIN sessions :
       /\ TotalMessages < MaxMessages
       /\ SetStore(addMessage(Store, sessionId,
                     ChatMessage(NextMessageId(Store, sessionId), "user",
                                 <<"p1">>),
                     autoSave))
  /\ UNCHANGED <<serviceVars, diskVars, viewVars>>

\* The text updateLastMessage is called with.
StreamedTexts == {<<"p2">>}

UpdateLastMessage ==
  /\ \E sessionId \in DOMAIN sessions, content \in StreamedTexts :
       /\ updateLastMessage(Store, sessionId, content) # Store
       /\ SetStore(updateLastMessage(Store, sessionId, content))
  /\ UNCHANGED <<serviceVars, diskVars, viewVars>>

FinalizeLastMessage ==
  /\ \E sessionId \in DOMAIN sessions :
       /\ sessions[sessionId].messages.items # <<>>
       /\ SetStore(finalizeLastMessage(Store, sessionId, autoSave))
  /\ UNCHANGED <<serviceVars, diskVars, viewVars>>

ExternalIds == {"s1"}

SetClaudeSessionId ==
  /\ \E sessionId \in DOMAIN sessions, claudeSessionId \in ExternalIds :
       /\ sessions[sessionId].claudeSessionId # JStr(claudeSessionId)
       /\ SetStore(setClaudeSessionId(Store, sessionId, claudeSessionId))
  /\ UNCHANGED <<serviceVars, diskVars, viewVars>>

SetActiveSession ==
  /\ \E id \in DOMAIN sessions :
       /\ id # activeSessionId
       /\ SetStore(setActiveSession(Store, id))
  /\ UNCHANGED <<serviceVars, diskVars, viewVars>>

DeleteSession ==
  /\ \E id \in DOMAIN sessions : deleteSession("store", id)
  /\ UNCHANGED <<serviceVars, storage, initialized, autoSave,
                 accumulatedContent>>

\* ------------------------------------------------ what the folder holds
GoodMessages ==
  JList(<<StoredMessage(JStr("m1"), JStr("user")),
          StoredMessage(JStr("m2"), JStr("assistant"))>>)

\* A record as saveSession writes it.
GoodSession(id) == StoredSession(JStr(id), GoodMessages, JNum("1"), JNum("2"))

\* The same record with one message replaced.
WithMessage(message) ==
  StoredSession(JStr("c"), JList(<<message>>), JNum("1"), JNum("2"))

StoredValues ==
  {GoodSession("a"), GoodSession("b"),
   StoredSession(JStr("c"), JList(<<>>), JNum("1"), JNum("2")),
   StoredSession(JStr("c"), GoodMessages, JNum("1"), JMissing),
   StoredSession(JStr("c"), GoodMessages, JStr("1"), JNum("2")),
   StoredSession(JStr(""), GoodMessages, JNum("1"), JNum("2")),
   StoredSession(JNum("7"), GoodMessages, JNum("1"), JNum("2")),
   StoredSession(JStr("c"), JNoList("string"), JNum("1"), JNum("2")),
   StoredSession(JStr("c"),
                 JList(<<StoredMessage(JStr("m1"), JStr("user")),
                         StoredMessage(JStr("m1"), JStr("assistant"))>>),
                 JNum("1"), JNum("2")),
   WithMessage(StoredMessage(JStr("m1"), JStr("system"))),
   WithMessage(StoredMessage(JStr("m1"), JStr("tool"))),
   WithMessage(StoredMessage(JMissing, JStr("user"))),
   WithMessage(NullMessage),
   NotAnObject("number"), NotAnObject("null")}

StoredFiles ==
  {StoredFile(json, "ok", value) : json \in BOOLEAN, value \in StoredValues}
  \cup {StoredFile(TRUE, state, NotAnObject("undefined")) :
          state \in {"garbled", "unreadable"}}

\* The listings of the storage folder: up to MaxFiles files, in any order.
Listings == SeqsUpTo(StoredFiles, MaxFiles)

\* initialize, lines 39-42: ensureStorageFolder, then loadSessions.
Initialize ==
  /\ ~initialized
  /\ sessions' = LoadFiles(storage, sessions)
  /\ initialized' = TRUE
  /\ UNCHANGED <<serviceVars, storage, activeSessionId, pendingSaves,
                 pendingDeletes, created, autoSave, viewVars>>

\* The fields of the service and of the chat panel as they are initialised,
\* and no call of the session manager in flight.
ServiceInit ==
  /\ activeProcess = NoProcess
  /\ runs = <<>>
  /\ activeToolCalls = EmptyCalls
  /\ queuedInput = Null
  /\ awaiting = <<>>
  /\ followUps = <<>>
  /\ accumulatedContent = <<>>

\* No call of the session manager is in flight.
Idle ==
  /\ pendingSaves = {}
  /\ pendingDeletes = {}

\* The objects as constructed, with the default settings: no session in the
\* store, none adopted by the chat panel.
InitCommon ==
  /\ ServiceInit
  /\ Idle
  /\ sessions = NoSessions
  /\ activeSessionId = Null
  /\ created = 0
  /\ currentSessionId = Null
  /\ autoSave = TRUE

\* The plugin has loaded, from an empty storage folder.
Loaded ==
  /\ storage = <<>>
  /\ initialized = TRUE

Init == InitCommon /\ Loaded /\ scope = "lifecycle"

StreamInit == InitCommon /\ Loaded /\ scope = "stream"

ProtocolInit == InitCommon /\ Loaded /\ scope = "protocol"

QueueInit == InitCommon /\ Loaded /\ scope = "queue"

ParserInit == InitCommon /\ Loaded /\ scope = "parser"

ReuseInit == InitCommon /\ Loaded /\ scope = "reuse"

\* The chat panel has opened on an empty store (onOpen, initializeSession,
\* lines 264-280: createSession), with auto-save switched off.
SessionInit ==
  /\ ServiceInit
  /\ Idle
  /\ Loaded
  /\ scope = "session"
  /\ autoSave = FALSE
  /\ LET st == createSession(StoreOf(NoSessions, Null, {}, 0))
     IN /\ sessions = st.sessions
        /\ activeSessionId = st.activeSessionId
        /\ created = st.created
        /\ currentSessionId = st.activeSessionId

\* The store has loaded, from an empty folder, with auto-save on or off.
PersistInit ==
  /\ ServiceInit
  /\ Idle
  /\ Loaded
  /\ scope = "persist"
  /\ autoSave \in BOOLEAN
  /\ sessions = NoSessions
  /\ activeSessionId = Null
  /\ created = 0
  /\ currentSessionId = Null

\* The store has loaded, from an empty folder, with auto-save off.
TranscriptInit ==
  /\ ServiceInit
  /\ Idle
  /\ Loaded
  /\ scope = "transcript"
  /\ autoSave = FALSE
  /\ sessions = NoSessions
  /\ activeSessionId = Null
  /\ created = 0
  /\ currentSessionId = Null

\* What became of a session before the behaviour starts: "new" (created),
\* "saving" (one message added, its saveSession call in flight), "saved"
\* (one message added and saved).
Conditions == {"new", "saving", "saved"}

SessionIn(id, cond) ==
  LET session == StoredSession(JStr(id), JList(<<>>), Now, Now)
  IN IF cond = "new" THEN session
     ELSE [session EXCEPT
             !.messages.items = <<ChatMessage(MessageId(1), "user", <<"p1">>)>>]

\* The first k sessions, their files and the calls in flight.
RECURSIVE SessionsIn(_, _)
SessionsIn(cond, k) ==
  IF k = 0 THEN NoSessions
  ELSE (SessionId(k) :> SessionIn(SessionId(k), cond[k]))
         @@ SessionsIn(cond, k - 1)

RECURSIVE FilesIn(_, _)
FilesIn(cond, k) ==
  IF k = 0 THEN <<>>
  ELSE FilesIn(cond, k - 1)
         \o (IF cond[k] = "saved"
               THEN <<StoredFile(TRUE, "ok", SessionIn(SessionId(k), cond[k]))>>
               ELSE <<>>)

SavesIn(cond, k) ==
  {SaveCall(SessionIn(SessionId(n), cond[n])) :
     n \in {m \in 1..k : cond[m] = "saving"}}

\* The store holds up to MaxSessions sessions, each new, being saved or
\* saved, and any of them (or none) is the active one; auto-save is on.
DeleteInit ==
  /\ ServiceInit
  /\ scope = "delete"
  /\ initialized = TRUE
  /\ autoSave = TRUE
  /\ currentSessionId = Null
  /\ pendingDeletes = {}
  /\ \E k \in 0..MaxSessions : \E cond \in [1..k -> Conditions] :
       /\ created = k
       /\ sessions = SessionsIn(cond, k)
       /\ storage = FilesIn(cond, k)
       /\ pendingSaves = SavesIn(cond, k)
  /\ activeSessionId \in {Null} \cup DOMAIN sessions

\* The plugin is about to load, from any of the listings.
StoreInit ==
  /\ InitCommon
  /\ storage \in Listings
  /\ initialized = FALSE
  /\ scope = "store"

\* Scope "lifecycle": several runs, started by the chat panel and by inline
\* blocks, with processes that write nothing to their error channel.
Next ==
  \/ UserSend
  \/ SendResume
  \/ InlineExecute
  \/ FollowUpFires
  \/ Abort
  \/ \E r \in RunIds : StdoutData(r)
  \/ \E r \in RunIds : \E code \in CloseCodes(runs[r]) : ProcessClose(r, code)
  \/ \E r \in RunIds : LaunchError(r)
  \/ \E r \in RunIds : TimeoutExpires(r)

\* Scope "stream": one run of the chat panel, under every chunking of its
\* output.
StreamNext ==
  \/ UserSend
  \/ Abort
  \/ \E r \in RunIds : StdoutData(r)
  \/ \E r \in RunIds : StderrData(r)
  \/ \E r \in RunIds : \E code \in CloseCodes(runs[r]) : ProcessClose(r, code)
  \/ \E r \in RunIds : LaunchError(r)
  \/ \E r \in RunIds : TimeoutExpires(r)

\* Scope "protocol": one run of the chat panel that nobody terminates.
ProtocolNext ==
  \/ UserSend
  \/ \E r \in RunIds : StdoutData(r)
  \/ \E r \in RunIds : \E code \in CloseCodes(runs[r]) : ProcessClose(r, code)
  \/ \E r \in RunIds : LaunchError(r)

\* Scope "queue": runs of the chat panel only, and two prompts.
QueueNext ==
  \/ UserSend
  \/ SendResume
  \/ FollowUpFires
  \/ Abort
  \/ \E r \in RunIds : StdoutData(r)
  \/ \E r \in RunIds : \E code \in CloseCodes(runs[r]) : ProcessClose(r, code)
  \/ \E r \in RunIds : LaunchError(r)

\* Scope "parser": one run of the chat panel that nobody terminates.
ParserNext ==
  \/ UserSend
  \/ \E r \in RunIds : StdoutData(r)
  \/ \E r \in RunIds : \E code \in CloseCodes(runs[r]) : ProcessClose(r, code)
  \/ \E r \in RunIds : LaunchError(r)

\* Scope "reuse": runs of the chat panel that nobody terminates; a new run
\* starts when the one before has closed.
ReuseNext ==
  \/ UserSend
  \/ SendResume
  \/ \E r \in RunIds : StdoutData(r)
  \/ \E r \in RunIds : \E code \in CloseCodes(runs[r]) : ProcessClose(r, code)
  \/ \E r \in RunIds : LaunchError(r)

\* Scope "session": the chat panel with its sessions; runs end by
\* themselves or are aborted.
SessionNext ==
  \/ UserSend
  \/ FollowUpFires
  \/ Abort
  \/ StartNewSession
  \/ LoadSession
  \/ ViewDeleteSession
  \/ \E r \in RunIds : StdoutData(r)
  \/ \E r \in RunIds : \E code \in CloseCodes(runs[r]) : ProcessClose(r, code)
  \/ \E r \in RunIds : LaunchError(r)

\* Scope "persist": the operations of the session manager and the file
\* operations they await.
PersistNext ==
  \/ CreateSession
  \/ AddMessage
  \/ SetClaudeSessionId
  \/ SetActiveSession
  \/ DeleteSession
  \/ \E d \in pendingDeletes : DeleteFinish(d)
  \/ \E c \in pendingSaves : SaveCheck(c)
  \/ \E c \in pendingSaves : SaveFinish(c)

\* Scope "transcript": the operations of the store on the sessions it
\* holds, with auto-save off (no file is written).
TranscriptNext ==
  \/ CreateSession
  \/ AddMessage
  \/ UpdateLastMessage
  \/ FinalizeLastMessage
  \/ SetClaudeSessionId
  \/ SetActiveSession
  \/ DeleteSession

\* Scope "delete": sessions are deleted, created and activated while the
\* saves in flight go on.
DeleteNext ==
  \/ CreateSession
  \/ SetActiveSession
  \/ DeleteSession
  \/ \E d \in pendingDeletes : DeleteFinish(d)
  \/ \E c \in pendingSaves : SaveCheck(c)
  \/ \E c \in pendingSaves : SaveFinish(c)

\* Scope "store": the plugin loads.
StoreNext == Initialize

Spec == Init /\ [][Next]_vars

StreamSpec == StreamInit /\ [][StreamNext]_vars

ProtocolSpec == ProtocolInit /\ [][ProtocolNext]_vars

QueueSpec == QueueInit /\ [][QueueNext]_vars

StoreSpec == StoreInit /\ [][StoreNext]_vars

ParserSpec == ParserInit /\ [][ParserNext]_vars

SessionSpec == SessionInit /\ [][SessionNext]_vars

PersistSpec == PersistInit /\ [][PersistNext]_vars

DeleteSpec == DeleteInit /\ [][DeleteNext]_vars

TranscriptSpec == TranscriptInit /\ [][TranscriptNext]_vars

ReuseSpec == ReuseInit /\ [][ReuseNext]_vars

\* What is bound to happen: suspended calls resume, timers fire, processes
\* end or fail to launch.  (A process may end without writing all it could.)
Progress ==
  \/ SendResume
  \/ FollowUpFires
  \/ \E r \in RunIds : LaunchError(r)
  \/ \E r \in RunIds : TimeoutExpires(r)
  \/ \E r \in RunIds : \E code \in CloseCodes(runs[r]) : ProcessClose(r, code)

\* Scope "lifecycle" again, where the program does not stop while it has
\* such a step to take.  What the user does (send, abort, run an inline
\* block) need not happen.
Fairness == WF_vars(Progress)

LiveSpec == Init /\ [][Next]_vars /\ Fairness

\* ------------------------------------------------------------------ claims
Alive(r) == runs[r].status = "alive"

Resolved(r) == runs[r].promise = "resolved"

\* C1: at every moment at most one process spawned for the chat panel has
\* not yet closed.
C1_AtMostOneProcess ==
  Cardinality({r \in RunIds : Alive(r) /\ runs[r].caller = "chat"}) <= 1

\* C2: a run that is still streaming when its timeout expires is moved to
\* termination: its process has been sent the signal, so that it closes and
\* the promise of the run settles.
C2_ExpiryTerminatesRun ==
  \A r \in RunIds : Alive(r) /\ runs[r].timer = "fired" => runs[r].signalled

\* C3: every resolved outcome whose accumulated final text is not empty has
\* success true, whatever the exit status.
C3_TextImpliesSuccess ==
  \A r \in RunIds :
    Resolved(r) /\ runs[r].finalContent # <<>> => runs[r].outcome.success

C3_Witness ==
  \E r \in RunIds :
    /\ Resolved(r)
    /\ runs[r].exitCode = "null"
    /\ runs[r].finalContent # <<>>
    /\ runs[r].outcome.success

\* C4: an outcome is a failure exactly when the exit was not clean and no
\* final text was accumulated; a failure carries a non-empty error detail,
\* the captured error channel if there is any and the exit-status message
\* otherwise; a run that died of the timeout's signal with no text is a
\* failure.
C4_FailureAndDetail ==
  \A r \in RunIds :
    Resolved(r) =>
      LET run == runs[r]
      IN /\ ~run.outcome.success
              <=> (run.exitCode # "0" /\ run.finalContent = <<>>)
         /\ ~run.outcome.success =>
              /\ run.outcome.error # <<>>
              /\ run.stderrData # <<>> => run.outcome.error = run.stderrData
              /\ run.stderrData = <<>> =>
                   run.outcome.error =
                     <<"Process exited with code ", run.exitCode>>
         /\ (run.timer = "fired" /\ run.exitCode = "null"
               /\ run.finalContent = <<>>)
              => (~run.outcome.success /\ run.outcome.error # <<>>)

C4_Witness ==
  \E r \in RunIds :
    /\ Resolved(r)
    /\ runs[r].timer = "fired"
    /\ runs[r].exitCode = "null"
    /\ ~runs[r].outcome.success
    /\ runs[r].outcome.error = <<"Process exited with code ", "null">>

\* C5: when the launch fails the promise is rejected and no outcome is ever
\* produced for the run, its timeout is disarmed, and right after the error
\* handler isRunning() is false.
C5_LaunchFailureRejects ==
  /\ [][\A r \in RunIds :
          runs[r].status = "nolaunch" =>
            /\ runs'[r].promise = "rejected"
            /\ runs'[r].timer = "cleared"
            /\ activeProcess' = NoProcess]_vars
  /\ [](\A r \in RunIds :
          runs[r].status \in {"errored", "closed"} /\ runs[r].exitCode \in {Undef, "-2"}
            => /\ runs[r].promise = "rejected"
               /\ runs[r].outcome = NoOutcome
               /\ runs[r].timer = "cleared")

C5_Witness ==
  \E r, q \in RunIds :
    /\ r < q
    /\ runs[r].promise = "rejected"
    /\ ~isRunning
    /\ runs[q].status = "closed"
    /\ Resolved(q)

\* The 'message' notifications of a log of emit() calls, in order.
MessagesOf(emitted) ==
  LET sel == SelectSeq(emitted, LAMBDA e : e.ev = "message")
  IN [i \in 1..Len(sel) |-> sel[i].msg]

IsTextEvent(m) == m.type \in {"assistant", "result"} /\ m.content # <<>>

\* The text of the last assistant-text or final-result event of msgs.
RECURSIVE LastText(_)
LastText(msgs) ==
  IF msgs = <<>> THEN <<>>
  ELSE IF IsTextEvent(msgs[Len(msgs)]) THEN msgs[Len(msgs)].content
  ELSE LastText(SubSeq(msgs, 1, Len(msgs) - 1))

\* The bytes the process of run r has written so far.
Written(r) == SubSeq(runs[r].stream, 1, runs[r].pos)

\* The handler fed with the given chunks, one 'data' event each.
RECURSIVE Feed(_, _, _)
Feed(run, calls, chunks) ==
  IF chunks = <<>> THEN run
  ELSE LET st == OnStdoutData(run, calls, Head(chunks))
       IN Feed(st.run, st.calls, Tail(chunks))

\* The complete lines of a byte stream, each with its newline, and the bytes
\* after the last newline.
LineChunks(bytes) ==
  LET parts == SplitLF(bytes)
  IN [i \in 1..(Len(parts) - 1) |-> parts[i] \o <<"LF">>]

TrailingBytes(bytes) == LET parts == SplitLF(bytes) IN parts[Len(parts)]

\* C6: when the whole stream (N complete lines and a trailing partial line)
\* has arrived, in whatever chunks, the handler has made the parseLine calls
\* it makes when the N lines arrive one per chunk, and the buffer holds the
\* trailing partial line.
C6_ChunkBoundaryInvariant ==
  \A r \in RunIds :
    Alive(r) /\ runs[r].pos = Len(runs[r].stream) =>
      /\ runs[r].parseCalls =
           Feed(NewRun(runs[r].stream, TRUE, runs[r].caller), EmptyCalls,
                LineChunks(runs[r].stream)).parseCalls
      /\ runs[r].buffer = Utf8Decode(TrailingBytes(runs[r].stream))

\* A line as the parser may see it when a character of it was cut by a chunk
\* boundary: U+00E9 arrives as two replacement characters.
RECURSIVE Garbled(_)
Garbled(s) ==
  IF s = <<>> THEN <<>>
  ELSE (IF Head(s) = "E9" THEN <<"FFFD", "FFFD">> ELSE <<Head(s)>>)
         \o Garbled(Tail(s))

NonBlank(lines) == SelectSeq(lines, LAMBDA l : Trim(l) # <<>>)

\* The lines the process of run r has produced and the handlers must have
\* handed to the parser: the complete non-blank lines, and after 'close' the
\* non-blank rest.
DueLines(r) ==
  LET parts == SplitLF(Utf8Decode(Written(r)))
  IN NonBlank(IF runs[r].status = "closed"
                THEN parts ELSE SubSeq(parts, 1, Len(parts) - 1))

\* The events the parser returns for the given parseLine calls, in order.
RECURSIVE ParsedEvents(_, _)
ParsedEvents(lines, calls) ==
  IF lines = <<>> THEN <<>>
  ELSE LET p == parseLine(Head(lines), calls)
       IN p.msgs \o ParsedEvents(Tail(lines), p.calls)

\* The parseLine calls of run r made by the 'data' handler.
DataCalls(r) ==
  IF runs[r].flushed = <<>> THEN runs[r].parseCalls
  ELSE SubSeq(runs[r].parseCalls, 1, Len(runs[r].parseCalls) - 1)

\* C7: the parseLine calls of a run are, one for one and in order, the
\* non-blank lines its process produced (no line twice, none split over two
\* calls, the trailing partial line once at exit), and the 'message'
\* notifications are the events the parser returned for the lines of the
\* 'data' handler, in line order and, within a line, in parser order.
C7_OrderedWholeLines ==
  \A r \in RunIds :
    /\ Len(runs[r].parseCalls) = Len(DueLines(r))
    /\ \A i \in 1..Len(runs[r].parseCalls) :
         Garbled(runs[r].parseCalls[i]) = Garbled(DueLines(r)[i])
    /\ MessagesOf(runs[r].emitted) = ParsedEvents(DataCalls(r), EmptyCalls)

C7_Witness ==
  \E r \in RunIds :
    /\ runs[r].status = "closed"
    /\ runs[r].flushed # <<>>
    /\ Len(runs[r].parseCalls) >= 3
    /\ Len(MessagesOf(runs[r].emitted)) >= 2
    /\ \E i \in 1..Len(runs[r].parseCalls) :
         \E k \in 1..Len(runs[r].parseCalls[i]) :
           runs[r].parseCalls[i][k] = "FFFD"

\* C8: every event of a resolved outcome was forwarded as a 'message'
\* notification, the events of the final partial line included.
C8_OutcomeEventsForwarded ==
  \A r \in RunIds :
    Resolved(r) =>
      LET forwarded == MessagesOf(runs[r].emitted)
          events == runs[r].outcome.messages
      IN /\ Len(events) <= Len(forwarded)
         /\ \A i \in 1..Len(events) : forwarded[i] = events[i]

\* C9: the final text of a successful outcome is the text of the last
\* assistant-text or final-result event of its event sequence.
C9_FinalTextIsLastText ==
  \A r \in RunIds :
    Resolved(r) /\ runs[r].outcome.success =>
      runs[r].outcome.finalContent = LastText(runs[r].outcome.messages)

Terminated(r) ==
  runs[r].status = "closed" /\ runs[r].signalled /\ runs[r].exitCode = "null"

\* C10, as claimed: what is buffered and not yet parsed when a run is
\* terminated by abort() or by the timeout is never handed to the parser
\* (stated for the runs that received no further output after the signal).
C10_TerminatedBufferDiscarded ==
  \A r \in RunIds :
    Terminated(r) /\ ~runs[r].lateData => runs[r].flushed = <<>>

\* What the parser returns for the buffer left at 'close'.
FinalEvents(r) ==
  IF Trim(runs[r].buffer) = <<>> THEN <<>>
  ELSE parseLine(runs[r].buffer, EmptyCalls).msgs

\* C10, amended: the close handler of a terminated run hands the buffered
\* output, unless blank, to the parser once; its events are added to the
\* outcome, and the run is a failure exactly when no text was accumulated
\* from complete lines and that output holds no final-result text.
C10_TerminatedBufferFlushed ==
  \A r \in RunIds :
    Terminated(r) /\ Resolved(r) =>
      /\ runs[r].flushed = (IF Trim(runs[r].buffer) = <<>>
                              THEN <<>> ELSE runs[r].buffer)
      /\ runs[r].outcome.messages =
           MessagesOf(runs[r].emitted) \o FinalEvents(r)
      /\ ~runs[r].outcome.success <=>
           /\ LastText(MessagesOf(runs[r].emitted)) = <<>>
           /\ \A i \in 1..Len(FinalEvents(r)) :
                ~(FinalEvents(r)[i].type = "result"
                    /\ FinalEvents(r)[i].content # <<>>)

C10_Witness ==
  \E r \in RunIds :
    /\ Terminated(r)
    /\ Resolved(r)
    /\ ~runs[r].lateData
    /\ runs[r].flushed # <<>>
    /\ LastText(MessagesOf(runs[r].emitted)) = <<>>
    /\ runs[r].outcome.success

\* The first session id carried by an event of msgs, if any.
RECURSIVE FirstSessionId(_)
FirstSessionId(msgs) ==
  IF msgs = <<>> THEN Undef
  ELSE IF Head(msgs).session_id # Undef THEN Head(msgs).session_id
  ELSE FirstSessionId(Tail(msgs))

\* C11: the session id of a successful outcome is the first session id seen
\* on an event of the run; a later event with another id does not change it
\* (stated for the events of the complete lines of the run).
C11_FirstSessionIdWins ==
  \A r \in RunIds :
    Resolved(r) /\ runs[r].outcome.success =>
      runs[r].outcome.sessionId = FirstSessionId(MessagesOf(runs[r].emitted))

\* A run is in progress from execute() until its promise settles.
RunInProgress == \E r \in RunIds : runs[r].promise = "pending"

\* C12: while a run is in progress, queueInput(t) and then
\* getAndClearQueuedInput() gives t, and getAndClearQueuedInput() once more
\* gives nothing.
C12_OfferThenTakeOnce ==
  RunInProgress =>
    \A t \in Prompts(scope) :
      LET first == getAndClearQueuedInput(queueInput(t).slot)
          second == getAndClearQueuedInput(first.slot)
      IN first.input = t /\ second.input = Null

\* C13: the queue holds one text or none; a text that queueInput accepts
\* replaces the pending one, and the next getAndClearQueuedInput() returns
\* it and leaves the queue empty.
C13_LastWriteWins ==
  /\ queuedInput \in Prompts(scope) \cup {Null}
  /\ \A t \in Prompts(scope) :
       LET offer == queueInput(t)
           taken == getAndClearQueuedInput(offer.slot)
       IN offer.accepted =>
            offer.slot = t /\ taken.input = t /\ taken.slot = Null

C13_Witness ==
  /\ isRunning
  /\ queuedInput = "p2"
  /\ queueInput("p1").accepted
  /\ queueInput("p1").slot = "p1"
  /\ followUps = <<>>

\* C14: queueInput(t) is accepted exactly when a run is in progress, and a
\* refused call leaves the pending text as it was.
C14_AcceptedIffRunInProgress ==
  \A t \in Prompts(scope) :
    LET offer == queueInput(t)
    IN /\ offer.accepted <=> RunInProgress
       /\ ~offer.accepted => offer.slot = queuedInput

\* C15: a text that queueInput accepted does not stay pending for ever: it
\* is taken from the queue in the end (to be sent as a new run).
C15_QueuedEventuallyTaken == (queuedInput # Null) ~> (queuedInput = Null)

ToolIds == {"t1", "t2"}

Count(seq, Test(_)) == Len(SelectSeq(seq, Test))

\* The tool-call events of msgs that a tool-result event at position j
\* answers: those with its call id, before it, not answered in between.
Answered(msgs, j) ==
  {i \in 1..(j - 1) :
     /\ msgs[i].type = "tool_use"
     /\ msgs[i].id = msgs[j].id
     /\ \A k \in (i + 1)..(j - 1) :
          ~(msgs[k].type = "tool_result" /\ msgs[k].id = msgs[j].id)}

\* The positions of msgs whose tool call is still waiting for its result.
Waiting(msgs, c) ==
  {i \in 1..Len(msgs) :
     /\ msgs[i].type = "tool_use"
     /\ msgs[i].id = c
     /\ \A k \in (i + 1)..Len(msgs) :
          ~(msgs[k].type = "tool_result" /\ msgs[k].id = c)}

\* C16: every tool_use record handed to the parser yields one tool-call
\* event with its id, name and input; a call id is in the correlator
\* exactly from its tool-call event to the next tool-result event for it;
\* that tool-result event carries the name and input of the call and the
\* delivered output.
C16_ToolCallsCorrelated ==
  \A r \in RunIds :
    LET msgs == runs[r].messages
    IN /\ Count(runs[r].parseCalls, LAMBDA l : Trim(l) = LnTool)
            = Count(msgs, LAMBDA m : m.type = "tool_use" /\ m.id = "t1"
                                      /\ m.name = "Read" /\ m.input = "i1")
       /\ Count(runs[r].parseCalls, LAMBDA l : Trim(l) = LnTool2)
            = Count(msgs, LAMBDA m : m.type = "tool_use" /\ m.id = "t2"
                                      /\ m.name = "Grep" /\ m.input = "i2")
       /\ \A c \in ToolIds :
            /\ c \in DOMAIN activeToolCalls <=> Waiting(msgs, c) # {}
            /\ \A i \in Waiting(msgs, c) :
                 /\ activeToolCalls[c].name = msgs[i].name
                 /\ activeToolCalls[c].input = msgs[i].input
       /\ \A j \in 1..Len(msgs) :
            msgs[j].type = "tool_result" =>
              \A i \in Answered(msgs, j) :
                /\ msgs[j].name = msgs[i].name
                /\ msgs[j].input = msgs[i].input
                /\ msgs[j].output = "out"

C16_Witness ==
  \E r \in RunIds :
    \E i, j \in 1..Len(runs[r].messages) :
      /\ i < j
      /\ runs[r].messages[i].type = "tool_use"
      /\ runs[r].messages[i].id = "t1"
      /\ runs[r].messages[j].type = "tool_result"
      /\ runs[r].messages[j].id = "t1"
      /\ runs[r].messages[j].name = "Read"
      /\ runs[r].messages[j].input = "i1"
      /\ "t1" \notin DOMAIN activeToolCalls
      /\ Len(runs[r].parseCalls) = 3

\* C17: every tool_result record handed to the parser yields exactly one
\* tool-result event; when its call id is not in the correlator (never
\* registered, or consumed by an earlier result) the event has no name and
\* no input and carries the delivered output; the other entries of the
\* correlator stay as they were, and the run still resolves as a success.
C17_UnknownResultTolerated ==
  \A r \in RunIds :
    LET msgs == runs[r].messages
        p == parseLine(LnToolResult, activeToolCalls)
    IN /\ Count(runs[r].parseCalls, LAMBDA l : Trim(l) = LnToolResult)
            = Count(msgs, LAMBDA m : m.type = "tool_result")
       /\ \A j \in 1..Len(msgs) :
            msgs[j].type = "tool_result" /\ Answered(msgs, j) = {} =>
              /\ msgs[j].name = Undef
              /\ msgs[j].input = Undef
              /\ msgs[j].output = "out"
       /\ Len(p.msgs) = 1
       /\ DOMAIN p.calls = DOMAIN activeToolCalls \ {"t1"}
       /\ \A c \in DOMAIN p.calls : p.calls[c] = activeToolCalls[c]
       /\ runs[r].status = "closed" /\ runs[r].exitCode = "0" =>
            Resolved(r) /\ runs[r].outcome.success

C17_Witness ==
  \E r \in RunIds :
    /\ Resolved(r)
    /\ runs[r].outcome.success
    /\ "t2" \in DOMAIN activeToolCalls
    /\ \E j \in 1..Len(runs[r].messages) :
         /\ runs[r].messages[j].type = "tool_result"
         /\ runs[r].messages[j].name = Undef
         /\ \E i \in 1..(j - 1) : runs[r].messages[i].type = "tool_use"

\* C18: a line that does not decode as a record with a type yields no
\* event: every event of a run has a type.
C18_NoEventWithoutType ==
  \A r \in RunIds :
    \A i \in 1..Len(runs[r].messages) : runs[r].messages[i].type # Undef

\* The structure the store requires of a record: a non-empty string id, a
\* list of messages, numeric createdAt and updatedAt, every message with a
\* role of the closed role set.
Roles == {JStr("user"), JStr("assistant"), JStr("system")}

WellFormedRecord(obj) ==
  /\ obj.t = "object"
  /\ obj.id.t = "string" /\ obj.id.v # ""
  /\ obj.messages.t = "array"
  /\ obj.createdAt.t = "number"
  /\ obj.updatedAt.t = "number"
  /\ \A i \in 1..Len(obj.messages.items) : obj.messages.items[i].role \in Roles

\* The records of the folder that could be read and decoded.
Decoded ==
  {storage[i].value :
     i \in {k \in 1..Len(storage) :
              storage[k].json /\ storage[k].state = "ok"}}

IsLoaded(obj) ==
  obj.id.v \in DOMAIN sessions /\ sessions[obj.id.v] = obj

\* C19: after the load, a stored record is in the store exactly when it has
\* the required structure.
C19_AcceptedIffWellFormed ==
  initialized =>
    \A obj \in Decoded : IsLoaded(obj) <=> WellFormedRecord(obj)

\* C20: after the load, the sessions of the store are the records of the
\* folder that have the required structure, whatever else the folder holds
\* and in whatever order it is listed.
C20_LoadedExactlyWellFormed ==
  initialized =>
    {sessions[id] : id \in DOMAIN sessions}
      = {obj \in Decoded : WellFormedRecord(obj)}

\* C21: with auto-save on, every step that changes a session of the store
\* (a message appended, the external session id assigned) issues a save of
\* the session as it is after the step.
C21_MutationIssuesWrite ==
  [][autoSave =>
       \A id \in (DOMAIN sessions) \cap (DOMAIN sessions') :
         sessions'[id] # sessions[id] =>
           SaveCall(sessions'[id]) \in pendingSaves' \ pendingSaves]_vars

NoSession == NotAnObject("null")

ExternalIdSet(session) == session.claudeSessionId # JMissing

\* C23: no step clears the external session id of a session that has one,
\* and when a step changes it, the new id is the one a run resolved with in
\* that step, a run issued after every run that resolved with the old id.
C23_ExternalIdKept ==
  [][\A id \in (DOMAIN sessions) \cap (DOMAIN sessions') :
       ExternalIdSet(sessions[id]) =>
         /\ ExternalIdSet(sessions'[id])
         /\ sessions'[id].claudeSessionId # sessions[id].claudeSessionId =>
              \E r \in RunIds :
                /\ runs[r].promise = "pending"
                /\ runs'[r].promise = "resolved"
                /\ sessions'[id].claudeSessionId
                     = JStr(runs'[r].outcome.sessionId)
                /\ \A q \in RunIds :
                     (/\ runs[q].promise = "resolved"
                      /\ JStr(runs[q].outcome.sessionId)
                           = sessions[id].claudeSessionId)
                       => q < r]_vars

\* C24: in every session of the store the ids of the messages differ from
\* one another.
C24_MessageIdsUnique ==
  \A id \in DOMAIN sessions :
    LET items == sessions[id].messages.items
    IN \A i, j \in 1..Len(items) : i # j => items[i].id # items[j].id

\* C25: for every run that resolved with a failed outcome the caller has
\* shown the user an error, as it does for a run that failed to launch.
C25_FailedOutcomeShown ==
  \A r \in RunIds :
    Resolved(r) /\ ~runs[r].outcome.success => runs[r].errorShown

\* The record a parseLine call decoded, if it decoded one.
Decodes(line) == Trim(line) # <<>> /\ JsonOk(Trim(line))

RecordIn(line) == JsonParse(Trim(line))

\* C26: a user record in which no block is a tool_result with a call id
\* (such records are the only source of events of type user) produces no
\* event: none is added to the messages of the outcome, none is notified.
C26_UserRecordWithoutResultSilent ==
  \A r \in RunIds :
    /\ \A i \in 1..Len(runs[r].messages) : runs[r].messages[i].type # "user"
    /\ \A i \in 1..Len(runs[r].emitted) : runs[r].emitted[i].msg.type # "user"

\* The blocks of an assistant record that map to an event, and their events.
Maps(block) ==
  \/ block.type = "thinking" /\ block.thinking # <<>>
  \/ block.type = "text" /\ block.text # <<>>
  \/ block.type = "tool_use"

EventOf(block, sid) ==
  CASE block.type = "thinking" ->
         [Msg("thinking", sid) EXCEPT !.content = block.thinking]
    [] block.type = "text" ->
         [Msg("assistant", sid) EXCEPT !.content = block.text,
                                       !.role = "assistant"]
    [] OTHER ->
         [Msg("tool_use", sid) EXCEPT !.id = block.id, !.name = block.name,
                                      !.input = block.input]

AssistantEvents(raw) ==
  LET mapped == SelectSeq(IF raw.hasContent THEN raw.blocks ELSE <<>>, Maps)
  IN IF mapped = <<>> THEN <<Msg("assistant", raw.session_id)>>
     ELSE [i \in 1..Len(mapped) |-> EventOf(mapped[i], raw.session_id)]

\* How many events a parseLine call returns.
EventCount(line) ==
  IF Decodes(line) /\ RecordIn(line).type = "assistant"
    THEN Len(AssistantEvents(RecordIn(line)))
    ELSE Len(parseLine(line, EmptyCalls).msgs)

RECURSIVE EventsBefore(_, _)
EventsBefore(lines, i) ==
  IF i <= 1 THEN 0
  ELSE EventsBefore(lines, i - 1) + EventCount(lines[i - 1])

\* C27: every assistant record yields at least one event: the events of its
\* thinking, text and tool_use blocks in block order, or, when no block maps
\* to an event, one bare event with the discriminator and the session id.
C27_AssistantRecordEvents ==
  \A r \in RunIds :
    LET lines == runs[r].parseCalls
    IN /\ Len(runs[r].messages) = EventsBefore(lines, Len(lines) + 1)
       /\ \A i \in 1..Len(lines) :
            Decodes(lines[i]) /\ RecordIn(lines[i]).type = "assistant" =>
              LET events == AssistantEvents(RecordIn(lines[i]))
                  from == EventsBefore(lines, i)
              IN /\ Len(events) >= 1
                 /\ SubSeq(runs[r].messages, from + 1, from + Len(events))
                      = events

C27_Witness ==
  \E r \in RunIds :
    /\ runs[r].status = "closed"
    /\ runs[r].parseCalls = <<LnAssistantOther, LnAssistantMixed>>
    /\ Len(runs[r].messages) = 4
    /\ runs[r].messages[1] = Msg("assistant", Undef)
    /\ runs[r].messages[2].type = "thinking"
    /\ runs[r].messages[3].content = <<"h">>
    /\ runs[r].messages[4].type = "tool_use"

\* The error flag a tool_result block delivers: false when it has none.
BlockFlag(block) == IF block.is_error = Undef THEN "false" ELSE block.is_error

\* C28: the is_error of every tool_result event is the error flag of the
\* tool_result block it was made from, false when the block reports none.
C28_ErrorFlagFromBlock ==
  \A r \in RunIds :
    \A k \in 1..Len(runs[r].messages) :
      LET m == runs[r].messages[k]
      IN m.type = "tool_result" =>
           \E i \in 1..Len(runs[r].parseCalls) :
             /\ Decodes(runs[r].parseCalls[i])
             /\ LET blocks == RecordIn(runs[r].parseCalls[i]).blocks
                IN \E b \in 1..Len(blocks) :
                     /\ blocks[b].type = "tool_result"
                     /\ blocks[b].tool_use_id = m.id
                     /\ blocks[b].content = m.output
                     /\ m.is_error = BlockFlag(blocks[b])

\* C29: when a run starts the correlator is empty, and so every tool_result
\* event that carries a name answers a tool_use event of its own run.
C29_CorrelatorEmptyAtRunStart ==
  /\ [][Len(runs') > Len(runs) => activeToolCalls' = EmptyCalls]_vars
  /\ [](\A r \in RunIds :
          \A k \in 1..Len(runs[r].messages) :
            LET m == runs[r].messages[k]
            IN m.type = "tool_result" /\ m.name # Undef =>
                 \E j \in 1..(k - 1) :
                   /\ runs[r].messages[j].type = "tool_use"
                   /\ runs[r].messages[j].id = m.id)

\* The call ids for which the parser has inserted an entry so far.
InsertedIds ==
  {id \in ToolIds :
     \E r \in RunIds : \E k \in 1..Len(runs[r].messages) :
       /\ runs[r].messages[k].type = "tool_use"
       /\ runs[r].messages[k].id = id
       /\ runs[r].messages[k].name # Undef}

\* C30: no step inserts or replaces the correlator entry of a call id for
\* which an entry was inserted before.
C30_NoSecondInsert ==
  [][\A id \in InsertedIds :
       id \in DOMAIN activeToolCalls' =>
         /\ id \in DOMAIN activeToolCalls
         /\ activeToolCalls'[id] = activeToolCalls[id]]_vars

\* The 'partial' notifications of a log of emit() calls, in order.
PartialsOf(emitted) == SelectSeq(emitted, LAMBDA e : e.ev = "partial")

\* C31: the 'partial' notifications of a run are, one for one and in order,
\* the texts of its assistant-text and final-result events; each comes right
\* after the 'message' notification of its event; and the final-text
\* accumulator is the payload of the last of them.
C31_PartialAfterEachText ==
  \A r \in RunIds :
    LET texts == SelectSeq(runs[r].messages, IsTextEvent)
        emitted == runs[r].emitted
        partials == PartialsOf(emitted)
    IN /\ Len(partials) = Len(texts)
       /\ \A i \in 1..Len(partials) : partials[i].text = texts[i].content
       /\ \A k \in 1..Len(emitted) :
            emitted[k].ev = "partial" =>
              /\ k > 1
              /\ emitted[k - 1].ev = "message"
              /\ IsTextEvent(emitted[k - 1].msg)
              /\ emitted[k - 1].msg.content = emitted[k].text
       /\ runs[r].finalContent =
            IF partials = <<>> THEN <<>> ELSE partials[Len(partials)].text

\* The second half of C31 alone: the accumulator is the payload of the most
\* recent 'partial' notification.
AccumulatorIsLastPartial ==
  \A r \in RunIds :
    LET partials == PartialsOf(runs[r].emitted)
    IN runs[r].finalContent =
         IF partials = <<>> THEN <<>> ELSE partials[Len(partials)].text

\* C32: a step of the store leaves every message of a session that stays in
\* the store where it is and as it is, but for its streaming flag.
C32_MessagesAppendOnly ==
  [][\A id \in (DOMAIN sessions) \cap (DOMAIN sessions') :
       LET old == sessions[id].messages.items
           new == sessions'[id].messages.items
       IN /\ Len(new) >= Len(old)
          /\ \A i \in 1..Len(old) :
               [new[i] EXCEPT !.isStreaming = old[i].isStreaming] = old[i]]_vars

\* C33: when the timeout armed by a run expires, that run has not closed,
\* and the only process the expiry sends a signal to is the process of that
\* run.
C33_TimeoutKillsOwnProcess ==
  [][\A r \in RunIds :
       runs[r].timer = "armed" /\ runs'[r].timer = "fired" =>
         /\ runs[r].status \notin {"closed", "errored"}
         /\ \A q \in RunIds :
              ~runs[q].signalled /\ runs'[q].signalled => q = r]_vars

\* The first half of C33 alone: no timeout expires once its run has closed
\* or failed to launch.
NoExpiryAfterClose ==
  \A r \in RunIds :
    runs[r].status \in {"closed", "errored"} => runs[r].timer # "armed"

\* C34: whenever a spawned process has not closed, isRunning() is true and
\* activeProcess refers to a process that has not closed, the one abort()
\* would signal.
C34_RunningWhileProcessAlive ==
  (\E r \in RunIds : Alive(r)) =>
    /\ isRunning
    /\ Alive(activeProcess)

\* The run r of the chat panel resolves in this step.
Resolves(r) ==
  /\ runs[r].caller = "chat"
  /\ runs[r].promise = "pending"
  /\ runs'[r].promise = "resolved"

\* C35: the step in which a run of the chat panel resolves records the
\* external session id of the outcome on the session that was current when
\* the run was issued, if the store still holds it, and changes no other
\* session: neither the id nor the reply goes to another session.
C35_RecordedOnIssuingSession ==
  [][\A r \in RunIds :
       Resolves(r) =>
         /\ (/\ runs[r].session \in DOMAIN sessions
             /\ runs'[r].outcome.sessionId # Undef)
              => sessions'[runs[r].session].claudeSessionId
                   = JStr(runs'[r].outcome.sessionId)
         /\ \A id \in DOMAIN sessions :
              id # runs[r].session => sessions'[id] = sessions[id]]_vars

\* How many messages of the user with the text t the transcripts hold.
Copies(ss, t) ==
  SumOver([id \in DOMAIN ss |->
             Len(SelectSeq(ss[id].messages.items,
                           LAMBDA m : /\ m.role = JStr("user")
                                      /\ m.content = <<t>>))])

\* C36: the step in which the queue accepts a text of the user adds one
\* message with that text to the transcripts, and the step in which the
\* follow-up run of the text is issued adds none: the text is there once.
C36_QueuedMessageOnce ==
  [][/\ \A t \in Prompts(scope) :
          (/\ followUps' = followUps
           /\ queuedInput' = t
           /\ queuedInput # t)
            => Copies(sessions', t) = Copies(sessions, t) + 1
     /\ (/\ followUps # <<>>
         /\ followUps' = Tail(followUps)
         /\ Len(runs') > Len(runs))
          => Copies(sessions', Head(followUps))
               = Copies(sessions, Head(followUps))]_vars

\* The first half of C36 alone.
QueueStepAddsOne ==
  [][\A t \in Prompts(scope) :
       (/\ followUps' = followUps
        /\ queuedInput' = t
        /\ queuedInput # t)
         => Copies(sessions', t) = Copies(sessions, t) + 1]_vars

\* The record the storage folder holds for the session id, if it holds one.
Durable(id) ==
  {storage[i].value : i \in {j \in 1..Len(storage) : IsFileOf(storage[j], id)}}

\* C37: with auto-save on, when no saveSession call is in flight, the file
\* of every session that addMessage calls (and nothing else) have changed
\* holds the session as it is in the store.
C37_SavedEqualsLatest ==
  (autoSave /\ pendingSaves = {}) =>
    \A id \in DOMAIN sessions :
      (/\ sessions[id].messages.items # <<>>
       /\ sessions[id].claudeSessionId = JMissing)
        => Durable(id) = {sessions[id]}

\* The sessions that were created and are no longer in the store.
DeletedIds == {SessionId(n) : n \in 1..created} \ DOMAIN sessions

\* C38: once the deleteSession call of a session has completed and no save
\* of the session is in flight any more, the storage folder holds no record
\* of the session (none that the next initialize() would load).
C38_DeletedStaysDeleted ==
  \A id \in DeletedIds :
    (/\ \A d \in pendingDeletes : d.id # id
     /\ \A c \in pendingSaves : c.id # id)
      => ~HasFile(storage, id)

====
